---- MODULE Spec2Model ----
(***************************************************************************)
(* Model of spinup/algos/sac1_rnn/core.py: the network building blocks of  *)
(* a Soft Actor-Critic agent.                                              *)
(*                                                                         *)
(* The file is a set of graph-construction functions.  Each function is    *)
(* modelled by an operator that computes what the function computes, and   *)
(* each is exercised by a small state machine whose Init draws the         *)
(* function's arguments and whose actions apply it:                        *)
(*   SpecClip    clip_but_pass_gradient                                    *)
(*   SpecLogStd  the log-std head of mlp_gaussian_policy                   *)
(*   SpecSquash  apply_squashing_func and the action scaling of            *)
(*               mlp_actor_critic                                          *)
(*   SpecGraph   mlp, mlp_gaussian_policy and mlp_actor_critic as builders *)
(*               of dense layers and of variables in the variable store    *)
(*   SpecRnn     sac1_dynamic_rnn and sac1_dynamic_rnn1 on tensor shapes   *)
(*               and on the variable store                                 *)
(***************************************************************************)
EXTENDS Integers, Sequences, FiniteSets, TLC

VARIABLES
    pc,                 \* position of the machine that is running
    \* clip_but_pass_gradient
    cx, cl, cu,         \* arguments x, l, u (float32 values that are integers)
    cres, cres2,        \* result of one application, and of a second one
    \* log-std head
    tanh_out,           \* output of the tanh dense layer, per action dimension
    log_std,            \* the rescaled log-std, per action dimension
    \* squashing and scaling
    mu_raw, pi_raw,     \* policy outputs before squashing, per dimension
    logp_raw,           \* gaussian_likelihood of pi, before the correction
    round_err,          \* rounding error carried by 1 - pi**2, per dimension
    action_space,       \* [low, high], per dimension
    mu, pi, logp_pi,    \* values returned by mlp_actor_critic
    \* graph construction
    hidden_sizes, act_dim, obs_dim, activation, output_activation,
    var_store,          \* the global variable registry: a set of variables
    dense_layers,       \* the dense layers built so far, in order
    \* recurrent wrappers
    x_shape, hc_0, hc_size, rnn_out, rnn_state

vars_clip == <<cx, cl, cu, cres, cres2>>
vars_ls == <<tanh_out, log_std>>
vars_sq == <<mu_raw, pi_raw, logp_raw, round_err, action_space, mu, pi, logp_pi>>
vars_g == <<hidden_sizes, act_dim, obs_dim, activation, output_activation,
            var_store, dense_layers>>
vars_rnn == <<x_shape, hc_0, hc_size, rnn_out, rnn_state>>
vars == <<pc, vars_clip, vars_ls, vars_sq, vars_g, vars_rnn>>

\* The parts of the state a machine does not use stay at these values.
IdleClip == cx = 0 /\ cl = 0 /\ cu = 0 /\ cres = 0 /\ cres2 = 0
IdleLogStd == tanh_out = <<>> /\ log_std = <<>>
IdleSquash ==
    /\ mu_raw = <<>> /\ pi_raw = <<>> /\ logp_raw = 0 /\ round_err = <<>>
    /\ action_space = <<>> /\ mu = <<>> /\ pi = <<>> /\ logp_pi = 0
IdleGraph ==
    /\ hidden_sizes = <<>> /\ act_dim = 0 /\ obs_dim = 0
    /\ activation = "" /\ output_activation = ""
    /\ var_store = {} /\ dense_layers = <<>>
IdleRnn == x_shape = <<>> /\ hc_0 = <<>> /\ hc_size = 0
           /\ rnn_out = <<>> /\ rnn_state = <<>>

(***************************************************************************)
(* float32 arithmetic on values that are integers.  A float32 carries a    *)
(* 24-bit significand: an integer below 2^24 in magnitude is exact, a      *)
(* larger one is rounded to 24 significant bits, ties to the even          *)
(* significand.  Sums, differences and products of integers are integers,  *)
(* so rounding the exact result this way is the float32 operation.         *)
(***************************************************************************)
MantBits == 24

RECURSIVE Quantum(_, _)
Quantum(a, q) == IF a \div q < 2^MantBits THEN q ELSE Quantum(a, 2 * q)

RoundHalfEven(a) ==
    LET q == Quantum(a, 1)
        lo == (a \div q) * q
        r == a - lo
    IN  IF 2 * r < q THEN lo
        ELSE IF 2 * r > q THEN lo + q
        ELSE IF (a \div q) % 2 = 0 THEN lo ELSE lo + q

Fl32(z) == IF z < 0 THEN -RoundHalfEven(-z) ELSE RoundHalfEven(z)

(***************************************************************************)
(* clip_but_pass_gradient(x, l, u): the forward value.  tf.stop_gradient   *)
(* is the identity on values; every arithmetic operation is a float32      *)
(* operation.                                                              *)
(***************************************************************************)
clip_but_pass_gradient(x, l, u) ==
    LET clip_up == IF x > u THEN 1 ELSE 0
        clip_low == IF x < l THEN 1 ELSE 0
        up_term == Fl32(Fl32(u - x) * clip_up)
        low_term == Fl32(Fl32(l - x) * clip_low)
    IN  Fl32(x + Fl32(up_term + low_term))

\* The mathematical clamp of x to [l, u].
Clamp(x, l, u) == IF x > u THEN u ELSE IF x < l THEN l ELSE x

\* ---- machine: clip_but_pass_gradient ----
MaxX == 3
MaxB == 1

\* Small arguments, and float32 values around 2^24 where the spacing of
\* float32 is 2 (every one of them is a float32 value).
ClipInputs ==
    (-MaxX..MaxX) \cup {s * (2^MantBits + 2 * k) : s \in {-1, 1}, k \in 0..MaxX}

InitClip ==
    /\ pc = "clip"
    /\ cx \in ClipInputs
    /\ cl \in -MaxB..MaxB
    /\ cu \in -MaxB..MaxB
    /\ cl <= cu
    /\ cres = 0 /\ cres2 = 0
    /\ IdleLogStd /\ IdleSquash /\ IdleGraph /\ IdleRnn

ClipOnce ==
    /\ pc = "clip"
    /\ cres' = clip_but_pass_gradient(cx, cl, cu)
    /\ pc' = "clip_once"
    /\ UNCHANGED <<cx, cl, cu, cres2, vars_ls, vars_sq, vars_g, vars_rnn>>

ClipTwice ==
    /\ pc = "clip_once"
    /\ cres2' = clip_but_pass_gradient(cres, cl, cu)
    /\ pc' = "clip_twice"
    /\ UNCHANGED <<cx, cl, cu, cres, vars_ls, vars_sq, vars_g, vars_rnn>>

NextClip == ClipOnce \/ ClipTwice
SpecClip == InitClip /\ [][NextClip]_vars

\* C5: the forward value of clip_but_pass_gradient(x, l, u) is the clamp of x
\* to [l, u] for every x and every l <= u: x when l <= x <= u, u when x > u,
\* l when x < l; so it lies in [l, u], and applying it twice gives the same
\* value as applying it once.
C5_ClipIsClamp ==
    /\ pc \in {"clip_once", "clip_twice"} =>
          /\ cres = Clamp(cx, cl, cu)
          /\ cl <= cres /\ cres <= cu
    /\ pc = "clip_twice" => cres2 = cres

(***************************************************************************)
(* The log-std head of mlp_gaussian_policy.  The tanh layer's output t is  *)
(* held as the integer t * TScale, t in [-1, 1].  The rescaled log_std is  *)
(* held in units of 1 / (2 * TScale), in which the factor 0.5 is exact.    *)
(***************************************************************************)
LOG_STD_MAX == 2
LOG_STD_MIN == -20

TScale == 8
ActDim == 2

\* One log_std, in units of 1 / (2 * TScale) .
LsUnit == 2 * TScale

\* LOG_STD_MIN + 0.5 * (LOG_STD_MAX - LOG_STD_MIN) * (1 + t), dropping the 0.5
RescaleNoHalf(t) ==
    LOG_STD_MIN * LsUnit + 2 * (LOG_STD_MAX - LOG_STD_MIN) * (t + TScale)

\* LOG_STD_MIN + 0.5 * (LOG_STD_MAX - LOG_STD_MIN) * (log_std + 1)
RescaleLogStd(t) ==
    LOG_STD_MIN * LsUnit + (LOG_STD_MAX - LOG_STD_MIN) * (t + TScale)

InitLogStd ==
    /\ pc = "tanh_layer"
    /\ tanh_out \in [1..ActDim -> -TScale..TScale]
    /\ log_std = <<>>
    /\ IdleClip /\ IdleSquash /\ IdleGraph /\ IdleRnn

Rescale ==
    /\ pc = "tanh_layer"
    /\ log_std' = [i \in 1..ActDim |-> RescaleLogStd(tanh_out[i])]
    /\ pc' = "log_std"
    /\ UNCHANGED <<tanh_out, vars_clip, vars_sq, vars_g, vars_rnn>>

NextLogStd == Rescale
SpecLogStd == InitLogStd /\ [][NextLogStd]_vars

\* C1: for every output t in [-1, 1] of the tanh log-std layer the rescaled
\* log_std lies in [LOG_STD_MIN, LOG_STD_MAX] = [-20, 2], is -20 exactly at
\* t = -1 and 2 exactly at t = 1, and is monotonically non-decreasing in t.
C1_LogStdInRange ==
    pc = "log_std" =>
        /\ \A i \in 1..ActDim :
              /\ LOG_STD_MIN * LsUnit <= log_std[i]
              /\ log_std[i] <= LOG_STD_MAX * LsUnit
              /\ tanh_out[i] = -TScale => log_std[i] = -20 * LsUnit
              /\ tanh_out[i] = TScale => log_std[i] = 2 * LsUnit
        /\ \A i, j \in 1..ActDim :
              tanh_out[i] <= tanh_out[j] => log_std[i] <= log_std[j]

\* Both ends of the tanh range, rescaled.
C1_Witness ==
    /\ pc = "log_std"
    /\ tanh_out[1] = -TScale /\ tanh_out[2] = TScale
    /\ log_std[1] < log_std[2]

(***************************************************************************)
(* apply_squashing_func and the action scaling of mlp_actor_critic.        *)
(* mu, pi, pi**2 and 1 - pi**2 are float32 values held as whole multiples  *)
(* of 2^-24, the spacing of float32 in [0.5, 1]: every float32 of that     *)
(* range, 0, and every whole number up to 2^24 is held exactly, and Fl32   *)
(* on these integers is the float32 rounding.  The argument of the         *)
(* logarithm is held in hundredths of that unit, log-probabilities in      *)
(* thousandths.                                                            *)
(***************************************************************************)
PiScale == 2^MantBits
ArgScale == 100 * PiScale

\* 1e-6 in units of 1 / ArgScale, to the nearest unit.
EpsArg == (ArgScale + 500000) \div 1000000

\* A float value: finite (val, in thousandths), or one of the non-finite ones.
Fin(n) == [kind |-> "fin", val |-> n]
NonFin(k) == [kind |-> k, val |-> 0]
IsFinite(v) == v.kind = "fin"

\* tf.tanh of a whole number r: the float32 nearest to tanh(r), in units of
\* 2^-24 (tanh(1) = 0.76159418, ..., tanh(5) = 0.99990922, ...,
\* tanh(9) = 1 - 2^-24); from |r| = 10 on the nearest float32 is 1.
Tanh(r) ==
    LET a == IF r < 0 THEN -r ELSE r
        t == CASE a = 0 -> 0
               [] a = 1 -> 12777430
               [] a = 2 -> 16173699
               [] a = 3 -> 16694249
               [] a = 4 -> 16765964
               [] a = 5 -> 16775693
               [] a = 6 -> 16777010
               [] a = 7 -> 16777188
               [] a = 8 -> 16777212
               [] a = 9 -> 16777215
               [] OTHER -> PiScale
    IN  IF r < 0 THEN -t ELSE t

\* pi**2 in float32, for pi = p * 2^-24 with pi**2 = 0 or in [0.5, 1] (as
\* for every value of Tanh): the exact square p^2 / 2^24, computed in two
\* 12-bit halves, rounded to the nearest whole unit, ties to even.
Square32(p) ==
    LET a == IF p < 0 THEN -p ELSE p
        half == 2^(MantBits \div 2)
        ph == a \div half
        pl == a % half
        cross == 2 * ph * pl
        r == (cross % half) * half + pl * pl
        q == ph * ph + cross \div half + r \div PiScale
        rem == r % PiScale
    IN  IF 2 * rem < PiScale THEN q
        ELSE IF 2 * rem > PiScale THEN q + 1
        ELSE IF q % 2 = 0 THEN q ELSE q + 1

RECURSIVE Log2Floor(_)
Log2Floor(a) == IF a < 2 THEN 0 ELSE 1 + Log2Floor(a \div 2)

\* ln(a / ArgScale) in thousandths for a >= 1, within 1.5 thousandths:
\* a = m * 2^k with 1 <= m < 2 (m held to 16 bits), ln a = k ln 2 + ln m,
\* ln m = 2 * (y + y^3 / 3 + y^5 / 5) with y = (m - 1) / (m + 1), worked in
\* ten-thousandths and rounded; ln(ArgScale) = 21.2407.
LnMilli(a) ==
    LET k == Log2Floor(a)
        m == IF k <= 15 THEN a * 2^(15 - k) ELSE a \div 2^(k - 15)
        one == 2^15
        y == ((m - one) * 20000 + (m + one)) \div (2 * (m + one))
        y2 == (y * y) \div 10000
        y3 == (y2 * y) \div 10000
        y5 == (y3 * y2) \div 10000
        ln_m == 2 * y + (2 * y3) \div 3 + (2 * y5) \div 5
        ln_a == (k * 693147) \div 100 + ln_m - 212407
    IN  (ln_a + 5) \div 10

\* tf.log of a value given in units of 1 / ArgScale.
Log(a) ==
    IF a > 0 THEN Fin(LnMilli(a))
    ELSE IF a = 0 THEN NonFin("-inf") ELSE NonFin("nan")

\* tf.reduce_sum(..., axis=1) of a row of float values.
RECURSIVE SumFrom(_, _)
SumFrom(row, i) ==
    IF i > Len(row) THEN Fin(0)
    ELSE LET h == row[i]
             t == SumFrom(row, i + 1)
         IN  IF h.kind = "nan" \/ t.kind = "nan" THEN NonFin("nan")
             ELSE IF IsFinite(h) /\ IsFinite(t) THEN Fin(h.val + t.val)
             ELSE IF IsFinite(h) THEN t
             ELSE IF IsFinite(t) \/ t.kind = h.kind THEN h
             ELSE NonFin("nan")
reduce_sum(row) == SumFrom(row, 1)

\* a - b on float values.
Minus(a, b) ==
    IF a.kind = "nan" \/ b.kind = "nan" THEN NonFin("nan")
    ELSE IF IsFinite(a) /\ IsFinite(b) THEN Fin(a.val - b.val)
    ELSE IF IsFinite(b) THEN a
    ELSE IF IsFinite(a) THEN NonFin(IF b.kind = "-inf" THEN "+inf" ELSE "-inf")
    ELSE IF a.kind = b.kind THEN NonFin("nan") ELSE a

\* 1 - pi**2 in float32 (the subtraction from 1 is exact).  err is a further
\* error laid on the computed value, in steps of 2^-23, the float32 spacing
\* just above 1: with err = 0 this is the value the code computes.
OneMinusSquare(p, err) == Fl32(PiScale - Square32(p) + 2 * err)

\* The value handed to tf.log, with the clipping left out.
LogArgUnclipped(p, err) == 100 * OneMinusSquare(p, err) + EpsArg

\* clip_but_pass_gradient(1 - pi**2, l=0, u=1) + 1e-6
LogArg(p, err) ==
    100 * clip_but_pass_gradient(OneMinusSquare(p, err), 0, PiScale) + EpsArg

apply_squashing_func(m, p, logp, err) ==
    LET mu_t == [i \in DOMAIN m |-> Tanh(m[i])]
        pi_t == [i \in DOMAIN p |-> Tanh(p[i])]
        corr == reduce_sum([i \in DOMAIN p |-> Log(LogArg(pi_t[i], err[i]))])
    IN  [mu |-> mu_t, pi |-> pi_t, logp_pi |-> Minus(logp, corr)]

MaxRaw == 10
MaxErr == 1
MaxLogp == 3
MaxAct == 2

\* Raw outputs: 0, one in the middle of the range and one in each half at
\* which float32 tanh is exactly 1 or -1.
RawVals == {-MaxRaw, -1, 0, 1, MaxRaw}
ErrVals == {-MaxErr, 0, MaxErr}
LogpVals == {-MaxLogp * 1000, 0}
ActVals == {-MaxAct, 0, MaxAct}

\* A Box action space: low[i] < high[i] in every dimension.
ActionSpaces ==
    {s \in [low : [1..ActDim -> ActVals], high : [1..ActDim -> ActVals]] :
        \A i \in 1..ActDim : s.low[i] < s.high[i]}

\* The outputs of the policy: pi = mu + noise * std takes any value in any
\* dimension; mu and the rounding error are drawn equal in all dimensions.
InitSquash ==
    /\ pc = "policy"
    /\ \E r \in RawVals : mu_raw = [i \in 1..ActDim |-> r]
    /\ pi_raw \in [1..ActDim -> RawVals]
    /\ \E e \in ErrVals : round_err = [i \in 1..ActDim |-> e]
    /\ \E l \in LogpVals : logp_raw = Fin(l)
    /\ action_space \in ActionSpaces
    /\ mu = mu_raw /\ pi = pi_raw /\ logp_pi = logp_raw
    /\ IdleClip /\ IdleLogStd /\ IdleGraph /\ IdleRnn

ApplySquashingFunc ==
    /\ pc = "policy"
    /\ LET r == apply_squashing_func(mu, pi, logp_pi, round_err)
       IN  /\ mu' = r.mu
           /\ pi' = r.pi
           /\ logp_pi' = r.logp_pi
    /\ pc' = "squashed"
    /\ UNCHANGED <<mu_raw, pi_raw, logp_raw, round_err, action_space,
                   vars_clip, vars_ls, vars_g, vars_rnn>>

\* action_scale = action_space.high[0]; mu *= action_scale; pi *= action_scale
ScaleActions ==
    /\ pc = "squashed"
    /\ LET action_scale == action_space.high[1]
       IN  /\ mu' = [i \in DOMAIN mu |-> Fl32(mu[i] * action_scale)]
           /\ pi' = [i \in DOMAIN pi |-> Fl32(pi[i] * action_scale)]
    /\ pc' = "scaled"
    /\ UNCHANGED <<mu_raw, pi_raw, logp_raw, round_err, action_space, logp_pi,
                   vars_clip, vars_ls, vars_g, vars_rnn>>

NextSquash == ApplySquashingFunc \/ ScaleActions
SpecSquash == InitSquash /\ [][NextSquash]_vars

\* C2: the actions mu and pi returned by mlp_actor_critic are in the correct
\* range: for every dimension i and every raw policy output,
\* action_space.low[i] <= mu[i], pi[i] <= action_space.high[i], for any
\* action space.
C2_ActionsInRange ==
    pc = "scaled" =>
        \A i \in 1..ActDim :
            /\ action_space.low[i] * PiScale <= mu[i]
            /\ mu[i] <= action_space.high[i] * PiScale
            /\ action_space.low[i] * PiScale <= pi[i]
            /\ pi[i] <= action_space.high[i] * PiScale

\* C3: for every value computed for 1 - pi**2, also one slightly below 0 or
\* above 1, the argument handed to the logarithm lies in [1e-6, 1 + 1e-6],
\* so it is strictly positive, and a finite logp_pi stays finite.
C3_LogpFinite ==
    pc \in {"squashed", "scaled"} =>
        /\ \A i \in 1..ActDim :
              LET arg == LogArg(Tanh(pi_raw[i]), round_err[i])
              IN  EpsArg <= arg /\ arg <= ArgScale + EpsArg
        /\ IsFinite(logp_raw) => IsFinite(logp_pi)

\* A saturated pi whose 1 - pi**2 came out below 0, and one at 0 whose
\* 1 - pi**2 came out above 1; the log-probability was corrected.
C3_Witness ==
    /\ pc = "squashed"
    /\ \E i \in 1..ActDim :
          /\ Tanh(pi_raw[i]) = PiScale
          /\ OneMinusSquare(Tanh(pi_raw[i]), round_err[i]) < 0
    /\ IsFinite(logp_pi) /\ logp_pi # logp_raw

(***************************************************************************)
(* Graph construction: mlp, mlp_gaussian_policy and mlp_actor_critic as    *)
(* builders of dense layers.  A tensor is held by its width (its last      *)
(* axis).  A dense layer owns a kernel of shape (in, units) and a bias of  *)
(* shape (units); the layers built inside one `with tf.variable_scope`     *)
(* block are named dense, dense_1, ... in the order they are built, the    *)
(* numbering starting again each time a block is entered, and a variable   *)
(* is named scope/layer/kernel or scope/layer/bias.                        *)
(***************************************************************************)
MaxLayers == 2
MaxUnits == 2
MaxObs == 2

HiddenSizes == UNION {[1..n -> 1..MaxUnits] : n \in 0..MaxLayers}
Activations == {"relu", "tanh"}
OutputActivations == {"none", "tanh"}

Layer(in, units, act) == [in |-> in, units |-> units, activation |-> act]

\* mlp with the last layer given `activation` instead of output_activation.
mlpSameActivation(in_dim, hs, act, out_act) ==
    IF Len(hs) = 0 THEN [ok |-> FALSE, layers |-> <<>>]
    ELSE [ok |-> TRUE,
          layers |-> [i \in 1..Len(hs) |->
              Layer(IF i = 1 THEN in_dim ELSE hs[i - 1], hs[i], act)]]

\* mlp(x, hidden_sizes, activation, output_activation): the dense layers it
\* stacks on an input of width in_dim.  hidden_sizes[-1] of an empty
\* sequence raises IndexError: ok is FALSE and nothing was built.
mlp(in_dim, hs, act, out_act) ==
    IF Len(hs) = 0 THEN [ok |-> FALSE, layers |-> <<>>]
    ELSE [ok |-> TRUE,
          layers |-> [i \in 1..Len(hs) |->
              Layer(IF i = 1 THEN in_dim ELSE hs[i - 1], hs[i],
                    IF i < Len(hs) THEN act ELSE out_act)]]

\* mlp_gaussian_policy: the trunk, then the mu head and the log_std head,
\* both on the trunk's output.
mlp_gaussian_policy(x_dim, a_dim, hs, act, out_act) ==
    LET net == mlp(x_dim, hs, act, act)
    IN  IF ~net.ok THEN net
        ELSE [ok |-> TRUE,
              layers |-> net.layers \o
                  << Layer(hs[Len(hs)], a_dim, out_act),
                     Layer(hs[Len(hs)], a_dim, "tanh") >>]

\* vf_mlp = lambda x : tf.squeeze(mlp(x, list(hidden_sizes)+[1], activation, None), axis=1)
vf_mlp(in_dim, hs, act) == mlp(in_dim, hs \o <<1>>, act, "none")

\* The kernel and the bias of the dense layer numbered k in `scope`.
DenseVars(scope, k, l) ==
    { [name |-> <<scope, k, "kernel">>, shape |-> <<l.in, l.units>>],
      [name |-> <<scope, k, "bias">>, shape |-> <<l.units>>] }

\* tf.get_variable for the variables `want` under a scope's reuse setting:
\* reuse=True needs every variable to exist, reuse=False none of them,
\* AUTO_REUSE creates the missing ones; a variable that exists with another
\* shape is an error.
GetVariables(store, reuse, want) ==
    LET missing == {v \in want : ~\E w \in store : w.name = v.name}
        clash == {v \in want : \E w \in store : w.name = v.name /\ w.shape # v.shape}
    IN  [ok |-> /\ clash = {}
                /\ (reuse = "true" => missing = {})
                /\ (reuse = "false" => missing = want),
         store |-> store \cup missing,
         created |-> {v.name : v \in missing}]

\* The dense layers `layers` built one after the other inside one
\* variable_scope block, from the i-th on.
RECURSIVE BuildFrom(_, _, _, _, _, _)
BuildFrom(store, scope, reuse, layers, tag, i) ==
    IF i > Len(layers) THEN [ok |-> TRUE, store |-> store, built |-> <<>>]
    ELSE LET want == DenseVars(scope, i - 1, layers[i])
             g == GetVariables(store, reuse, want)
         IN  IF ~g.ok THEN [ok |-> FALSE, store |-> store, built |-> <<>>]
             ELSE LET rest == BuildFrom(g.store, scope, reuse, layers, tag, i + 1)
                  IN  [ok |-> rest.ok,
                       store |-> rest.store,
                       built |-> << [tag |-> tag, scope |-> scope, index |-> i - 1,
                                     in |-> layers[i].in, units |-> layers[i].units,
                                     activation |-> layers[i].activation,
                                     reads |-> {v.name : v \in want},
                                     created |-> g.created] >> \o rest.built]

\* The blocks of mlp_actor_critic with both q2 blocks opened as 'q1'.
BlockScopeQ1Twice(tag) ==
    CASE tag = "pi" -> [scope |-> "pi", reuse |-> "auto"]
      [] tag = "pi2" -> [scope |-> "pi", reuse |-> "true"]
      [] tag = "q1" -> [scope |-> "q1", reuse |-> "auto"]
      [] tag = "q1_pi" -> [scope |-> "q1", reuse |-> "true"]
      [] tag = "q2" -> [scope |-> "q1", reuse |-> "auto"]
      [] tag = "q2_pi" -> [scope |-> "q1", reuse |-> "true"]

\* The variable scope each block of mlp_actor_critic opens.
BlockScope(tag) ==
    CASE tag = "pi" -> [scope |-> "pi", reuse |-> "auto"]
      [] tag = "pi2" -> [scope |-> "pi", reuse |-> "true"]
      [] tag = "q1" -> [scope |-> "q1", reuse |-> "auto"]
      [] tag = "q1_pi" -> [scope |-> "q1", reuse |-> "true"]
      [] tag = "q2" -> [scope |-> "q2", reuse |-> "auto"]
      [] tag = "q2_pi" -> [scope |-> "q2", reuse |-> "true"]

\* The network each block builds: the policy on x, the policy on x2 (of the
\* width of x), a q network on concat([x, a]) or concat([x, pi]).
BlockNet(tag) ==
    IF tag \in {"pi", "pi2"}
    THEN mlp_gaussian_policy(obs_dim, act_dim, hidden_sizes, activation,
                             output_activation)
    ELSE vf_mlp(obs_dim + act_dim, hidden_sizes, activation)

Blocks == <<"pi", "pi2", "q1", "q1_pi", "q2", "q2_pi">>
NextBlock(tag) ==
    IF tag = "q2_pi" THEN "done"
    ELSE Blocks[1 + CHOOSE i \in 1..Len(Blocks) : Blocks[i] = tag]

InitGraph ==
    /\ pc \in {"mlp", "pi"}
    /\ hidden_sizes \in HiddenSizes
    /\ act_dim \in 1..ActDim
    /\ obs_dim \in 1..MaxObs
    /\ activation \in Activations
    /\ output_activation \in OutputActivations
    /\ var_store = {}
    /\ dense_layers = <<>>
    /\ IdleClip /\ IdleLogStd /\ IdleSquash /\ IdleRnn

\* mlp called on its own, outside any variable scope.
Mlp ==
    /\ pc = "mlp"
    /\ LET net == mlp(obs_dim, hidden_sizes, activation, output_activation)
           b == BuildFrom(var_store, "", "false", net.layers, "mlp", 1)
       IN  /\ pc' = IF net.ok /\ b.ok THEN "mlp_done" ELSE "mlp_error"
           /\ var_store' = b.store
           /\ dense_layers' = dense_layers \o b.built
    /\ UNCHANGED <<hidden_sizes, act_dim, obs_dim, activation, output_activation,
                   vars_clip, vars_ls, vars_sq, vars_rnn>>

\* One `with tf.variable_scope(...)` block of mlp_actor_critic.
Block(tag) ==
    /\ pc = tag
    /\ LET net == BlockNet(tag)
           sc == BlockScope(tag)
           b == BuildFrom(var_store, sc.scope, sc.reuse, net.layers, tag, 1)
       IN  /\ pc' = IF net.ok /\ b.ok THEN NextBlock(tag) ELSE "error"
           /\ var_store' = b.store
           /\ dense_layers' = dense_layers \o b.built
    /\ UNCHANGED <<hidden_sizes, act_dim, obs_dim, activation, output_activation,
                   vars_clip, vars_ls, vars_sq, vars_rnn>>

PiPass == Block("pi")
Pi2Pass == Block("pi2")
Q1Pass == Block("q1")
Q1PiPass == Block("q1_pi")
Q2Pass == Block("q2")
Q2PiPass == Block("q2_pi")

NextGraph ==
    Mlp \/ PiPass \/ Pi2Pass \/ Q1Pass \/ Q1PiPass \/ Q2Pass \/ Q2PiPass
SpecGraph == InitGraph /\ [][NextGraph]_vars

\* The layers a block built, and the variables it read and created.
LayersOf(tag) == SelectSeq(dense_layers, LAMBDA l : l.tag = tag)
ReadsOf(tag) == UNION {dense_layers[i].reads : i \in {j \in DOMAIN dense_layers : dense_layers[j].tag = tag}}
CreatedBy(tag) == UNION {dense_layers[i].created : i \in {j \in DOMAIN dense_layers : dense_layers[j].tag = tag}}
StoreNames == {v.name : v \in var_store}

\* C6: after one call of mlp_actor_critic the variable registry holds exactly
\* one set of weights per scope 'pi', 'q1', 'q2': the second policy pass and
\* the q1_pi / q2_pi passes create no variable and read exactly the variables
\* the first pass of their scope created, and q1, q2 and pi share no variable.
C6_OneSetPerScope ==
    /\ (pc = "error" => hidden_sizes = <<>>)
    /\ pc = "done" =>
        /\ \A pair \in {<<"pi", "pi2">>, <<"q1", "q1_pi">>, <<"q2", "q2_pi">>} :
              /\ CreatedBy(pair[2]) = {}
              /\ ReadsOf(pair[2]) = CreatedBy(pair[1])
              /\ ReadsOf(pair[1]) = CreatedBy(pair[1])
              /\ Len(LayersOf(pair[2])) = Len(LayersOf(pair[1]))
              /\ \A n \in CreatedBy(pair[1]) : n[1] = pair[1]
        /\ ReadsOf("q1") \cap ReadsOf("q2") = {}
        /\ ReadsOf("q1") \cap ReadsOf("pi") = {}
        /\ ReadsOf("q2") \cap ReadsOf("pi") = {}
        /\ StoreNames = CreatedBy("pi") \cup CreatedBy("q1") \cup CreatedBy("q2")
        /\ Cardinality(var_store) = Cardinality(StoreNames)
        /\ Cardinality(CreatedBy("pi")) = 2 * (Len(hidden_sizes) + 2)
        /\ Cardinality(CreatedBy("q1")) = 2 * (Len(hidden_sizes) + 1)
        /\ Cardinality(CreatedBy("q2")) = 2 * (Len(hidden_sizes) + 1)

\* A finished call with two hidden layers.
C6_Witness ==
    /\ pc = "done"
    /\ Len(hidden_sizes) = 2
    /\ Cardinality(var_store) = 20
    /\ Len(dense_layers) = 20

\* C7: mlp with a non-empty hidden_sizes of length n builds exactly n dense
\* layers in order, layer i with hidden_sizes[i] units, the first n-1 with
\* activation and the last with output_activation, so the result has width
\* hidden_sizes[-1]; with an empty hidden_sizes it fails instead of returning
\* x.  In mlp_gaussian_policy every trunk layer uses activation and only the
\* mu head, of act_dim units, uses output_activation.
C7_MlpLayers ==
    LET n == Len(hidden_sizes)
        trunk == LayersOf("pi")
    IN  /\ pc = "mlp_done" =>
              /\ n > 0
              /\ Len(dense_layers) = n
              /\ \A i \in 1..n :
                    /\ dense_layers[i].index = i - 1
                    /\ dense_layers[i].units = hidden_sizes[i]
                    /\ dense_layers[i].in = IF i = 1 THEN obs_dim ELSE hidden_sizes[i - 1]
                    /\ dense_layers[i].activation =
                           IF i < n THEN activation ELSE output_activation
              /\ dense_layers[n].units = hidden_sizes[n]
        /\ pc = "mlp_error" => n = 0 /\ dense_layers = <<>> /\ var_store = {}
        /\ (pc \in {"mlp", "pi"} \/ n > 0) => pc \notin {"mlp_error", "error"}
        /\ (n = 0 /\ pc \notin {"mlp", "pi"}) => pc \in {"mlp_error", "error"}
        /\ pc \in {"pi2", "q1", "q1_pi", "q2", "q2_pi", "done"} =>
              /\ Len(trunk) = n + 2
              /\ \A i \in 1..n :
                    /\ trunk[i].units = hidden_sizes[i]
                    /\ trunk[i].activation = activation
              /\ trunk[n + 1].units = act_dim
              /\ trunk[n + 1].in = hidden_sizes[n]
              /\ trunk[n + 1].activation = output_activation
              /\ trunk[n + 2].activation = "tanh"

\* mlp built two layers of different widths, the last with its own
\* output activation.
C7_Witness ==
    /\ pc = "mlp_done"
    /\ Len(hidden_sizes) = 2
    /\ hidden_sizes[1] # hidden_sizes[2]
    /\ dense_layers[1].activation = "relu"
    /\ dense_layers[2].activation = "none"

(***************************************************************************)
(* The recurrent wrappers, on tensor shapes.  A shape is the sequence of   *)
(* its dimensions.                                                         *)
(***************************************************************************)
MaxDim == 3
DefaultHcSize == 128

\* tf.transpose(t, perm) and tf.expand_dims(t, 0) on shapes; t[0] drops the
\* first axis.
transpose(shape, perm) == [i \in 1..Len(perm) |-> shape[perm[i] + 1]]
expand_dims0(shape) == <<1>> \o shape
first_item(shape) == Tail(shape)

\* The weights of a GRUCell of num_units units on inputs of width d, which
\* tf.nn.dynamic_rnn builds in its scope 'rnn'.
GruCellVars(num_units, d) ==
    { [name |-> <<"rnn", "gru_cell", "gates/kernel">>,
       shape |-> <<d + num_units, 2 * num_units>>],
      [name |-> <<"rnn", "gru_cell", "gates/bias">>, shape |-> <<2 * num_units>>],
      [name |-> <<"rnn", "gru_cell", "candidate/kernel">>,
       shape |-> <<d + num_units, num_units>>],
      [name |-> <<"rnn", "gru_cell", "candidate/bias">>, shape |-> <<num_units>>] }

\* The one weight buffer of a one-layer CudnnGRU of num_units units on inputs
\* of width d: three gates, each with an input matrix, a recurrent matrix
\* and two biases.
CudnnGruVars(num_units, d) ==
    { [name |-> <<"rnn", "cudnn_gru", "opaque_kernel">>,
       shape |-> <<3 * (num_units * (d + num_units) + 2 * num_units)>>] }

\* tf.nn.dynamic_rnn(GRUCell(num_units), x, initial_state): x is batch-major
\* (N, T, D); the state of a GRU cell of num_units units is (N, num_units),
\* any other initial state is rejected.
dynamic_rnn(num_units, x, initial_state) ==
    IF Len(x) # 3 \/ initial_state # <<x[1], num_units>>
    THEN [ok |-> FALSE, outputs |-> <<>>, states |-> <<>>, vars |-> {}]
    ELSE [ok |-> TRUE,
          outputs |-> <<x[1], x[2], num_units>>,
          states |-> <<x[1], num_units>>,
          vars |-> GruCellVars(num_units, x[3])]

\* CudnnGRU(num_layers=1, num_units)(inputs, initial_state=(h,)): inputs is
\* time-major (T, N, D) and h is (num_layers, N, H).  The layer builds its
\* weights from num_units and D and hands h to the cell as it is; the
\* tensors that come back take their width from h: outputs (T, N, H) and the
\* states tuple (h',) with h' of the shape of h.
CudnnGRU(num_units, inputs, h) ==
    [ok |-> TRUE,
     outputs |-> <<inputs[1], inputs[2], h[3]>>,
     states |-> << h >>,
     vars |-> CudnnGruVars(num_units, inputs[3])]

\* sac1_dynamic_rnn: hc_size is taken from hc_0, the argument is not used.
sac1_dynamic_rnn(x, h0, size) ==
    LET units == h0[2]
        r == dynamic_rnn(units, x, h0)
    IN  r

\* sac1_dynamic_rnn1 returning the cell's outputs as they are, time-major.
sac1_dynamic_rnn1TimeMajor(x, h0, size) ==
    LET r == CudnnGRU(size, transpose(x, <<1, 0, 2>>), expand_dims0(h0))
    IN  [ok |-> r.ok,
         outputs |-> r.outputs,
         states |-> first_item(r.states[1]),
         vars |-> r.vars]

\* sac1_dynamic_rnn1: the cell is built with hc_size units, whatever hc_0
\* is; x goes in transposed to time-major, the outputs come back transposed
\* to batch-major, the state is states[0][0].
sac1_dynamic_rnn1(x, h0, size) ==
    LET r == CudnnGRU(size, transpose(x, <<1, 0, 2>>), expand_dims0(h0))
    IN  [ok |-> r.ok,
         outputs |-> transpose(r.outputs, <<1, 0, 2>>),
         states |-> first_item(r.states[1]),
         vars |-> r.vars]

InitRnn ==
    /\ pc \in {"rnn", "rnn1"}
    /\ x_shape \in [1..3 -> 1..MaxDim]
    /\ \E h \in 1..MaxDim : hc_0 = <<x_shape[1], h>>
    /\ hc_size \in (1..MaxDim) \cup {DefaultHcSize}
    /\ rnn_out = <<>> /\ rnn_state = <<>>
    /\ IdleClip /\ IdleLogStd /\ IdleSquash /\ IdleGraph

\* The cell's weights are made under reuse=tf.AUTO_REUSE.
DynamicRnn ==
    /\ pc = "rnn"
    /\ LET r == sac1_dynamic_rnn(x_shape, hc_0, hc_size)
           g == GetVariables(var_store, "auto", r.vars)
       IN  /\ rnn_out' = r.outputs
           /\ rnn_state' = r.states
           /\ var_store' = g.store
           /\ pc' = IF r.ok /\ g.ok THEN "rnn_done" ELSE "rnn_error"
    /\ UNCHANGED <<x_shape, hc_0, hc_size, hidden_sizes, act_dim, obs_dim,
                   activation, output_activation, dense_layers,
                   vars_clip, vars_ls, vars_sq>>

\* with tf.variable_scope("rnn", reuse=tf.AUTO_REUSE)
DynamicRnn1 ==
    /\ pc = "rnn1"
    /\ LET r == sac1_dynamic_rnn1(x_shape, hc_0, hc_size)
           g == GetVariables(var_store, "auto", r.vars)
       IN  /\ rnn_out' = r.outputs
           /\ rnn_state' = r.states
           /\ var_store' = g.store
           /\ pc' = IF r.ok /\ g.ok THEN "rnn1_done" ELSE "rnn_error"
    /\ UNCHANGED <<x_shape, hc_0, hc_size, hidden_sizes, act_dim, obs_dim,
                   activation, output_activation, dense_layers,
                   vars_clip, vars_ls, vars_sq>>

NextRnn == DynamicRnn \/ DynamicRnn1
SpecRnn == InitRnn /\ [][NextRnn]_vars

\* C4: for x of shape (N, T, D) and hc_0 of shape (N, H), sac1_dynamic_rnn
\* and sac1_dynamic_rnn1 both return outputs of shape (N, T, H) and a final
\* state of shape (N, H), with the H of hc_0 and the batch and time axes in
\* the order they have in x.
C4_RnnShapes ==
    pc \notin {"rnn", "rnn1"} =>
        /\ pc \in {"rnn_done", "rnn1_done"}
        /\ rnn_out = <<x_shape[1], x_shape[2], hc_0[2]>>
        /\ rnn_state = <<x_shape[1], hc_0[2]>>

\* sac1_dynamic_rnn1 returned, on an input whose batch, time and feature
\* axes all differ and with hc_size other than the width of hc_0.
C4_Witness ==
    /\ pc = "rnn1_done"
    /\ x_shape[1] # x_shape[2] /\ x_shape[2] # x_shape[3]
    /\ hc_size # hc_0[2] /\ hc_0[2] # x_shape[3]
    /\ rnn_out = <<x_shape[1], x_shape[2], hc_0[2]>>

(***************************************************************************)
(* All the machines together.                                              *)
(***************************************************************************)
Init == InitClip \/ InitLogStd \/ InitSquash \/ InitGraph \/ InitRnn
Next == NextClip \/ NextLogStd \/ NextSquash \/ NextGraph \/ NextRnn
Spec == Init /\ [][Next]_vars

====
